---- MODULE Spec2Model ----
(***************************************************************************)
(* Simond vault: the window chrome and the main window.                    *)
(*                                                                         *)
(* Three widgets hold state and share none of it:                          *)
(*   CustomSidebar  (components/custom_sidebar.py)   - SpecSidebar         *)
(*   VaultWindow    (main.py)                        - SpecVault           *)
(*   CustomTitleBar + UserSettingsMenu               - SpecTitleBar        *)
(* Everything runs on the one UI thread: a handler runs to completion      *)
(* before the next event is dispatched.                                    *)
(***************************************************************************)
EXTENDS Integers, Sequences, FiniteSets, TLC

VARIABLES
    \* ---- CustomSidebar ----
    items,          \* self.items: item_id -> SidebarItem (its _is_selected flag)
    current_item,   \* self.current_item
    item_clicked,   \* the item_clicked emissions of the last operation, in order: the
                    \* id each carried and the selection its slots saw
    sb_last,        \* the last completed sidebar operation and the state it started from
    \* ---- VaultWindow ----
    vault_dir,      \* self.vault_dir ("" is the empty path <<>>)
    root_path,      \* file_model's root path = list_view's root index
    status_msg,     \* the status bar's message
    fs,             \* the filesystem: path -> node
    pc,             \* where dropEvent stands: "idle", "loop", "done"
    urls,           \* dropEvent: event.mimeData().urls()
    idx,            \* dropEvent: position of the for loop in urls (1-based)
    copied_count,   \* dropEvent: copied_count
    failed_files,   \* dropEvent: failed_files
    notices,        \* the message boxes the running dropEvent has shown, in order
    event,          \* what dropEvent did with the event: "pending", "ignored", "accepted"
    outcomes,       \* per processed url, in order: what happened to it
    fs_pre,         \* the filesystem when the running dropEvent was entered
    \* ---- CustomTitleBar + UserSettingsMenu ----
    settings_btn_checked,   \* settings_btn.isChecked()
    menu_visible,           \* user_menu.isVisible()
    menu_geometry,          \* user_menu.geometry()
    anim_state,             \* geometry_animation.state(): "Stopped" or "Running"
    anim_end,               \* geometry_animation.endValue()
    drag_position,          \* self._drag_position: <<>> is None, <<p>> a point p
    press_offset,           \* while a left press is not yet released: <<w0 - p0>>, the
                            \* window's position at the press minus the pointer's; else <<>>
    window_pos,             \* self.window().pos()
    emitted,                \* the signals the last handler emitted, in order, each
                            \* with what its slots saw of the menu when it was emitted
    toggles,                \* trigger toggles so far while nothing else touched the
                            \* menu (counted up to MaxToggles), else -1
    \* ---- one SidebarItem and the icon files ----
    icon_files,         \* the icon directory: path -> "absent", "svg" or "dir"
    icon_regular_path,  \* self.icon_regular_path
    icon_filled_path,   \* self.icon_filled_path
    is_selected,        \* self._is_selected
    is_hovered,         \* self._is_hovered
    icon_label,         \* what self.icon_label shows
    icon_error,         \* the exception the item's last handler let out, "" if none
    search_icon_label   \* what the title bar's search_icon_label shows

sidebar_vars == <<items, current_item, item_clicked, sb_last>>

choice_vars == <<vault_dir, root_path, status_msg>>

drop_vars == <<pc, urls, idx, copied_count, failed_files, notices, event, outcomes, fs_pre>>

vault_vars == <<vault_dir, root_path, status_msg, fs, pc, urls, idx, copied_count,
                failed_files, notices, event, outcomes, fs_pre>>

menu_vars == <<settings_btn_checked, menu_visible, menu_geometry, anim_state, anim_end,
               toggles>>

drag_vars == <<drag_position, press_offset, window_pos>>

titlebar_vars == <<settings_btn_checked, menu_visible, menu_geometry, anim_state, anim_end,
                   emitted, toggles, drag_position, press_offset, window_pos>>

icon_vars == <<icon_files, icon_regular_path, icon_filled_path, is_selected, is_hovered,
               icon_label, icon_error, search_icon_label>>

vars == <<items, current_item, item_clicked, sb_last,
          vault_dir, root_path, status_msg, fs, pc, urls, idx, copied_count,
          failed_files, notices, event, outcomes, fs_pre,
          settings_btn_checked, menu_visible, menu_geometry, anim_state, anim_end,
          emitted, toggles, drag_position, press_offset, window_pos,
          icon_files, icon_regular_path, icon_filled_path, is_selected, is_hovered,
          icon_label, icon_error, search_icon_label>>

(***************************************************************************)
(* CustomSidebar                                                           *)
(***************************************************************************)

\* Python's None, as a value that is none of the model's item ids and paths.
None == "<None>"

\* The five entries init_ui creates.
InitialIds == {"home", "local", "my_space", "in_progress", "settings"}

\* Ids a caller may hand to add_item / set_current_item / remove_item besides
\* the five: the empty string (a str like any other) and one more name.
ExtraIds == {"", "extra"}

ItemIds == InitialIds \cup ExtraIds

\* Python truthiness of self.current_item: None and "" are falsy.
Truthy(v) == v # None /\ v # ""

\* SidebarItem.__init__: a fresh item is not selected.
SidebarItem == [is_selected |-> FALSE]

\* SidebarItem.set_selected
set_selected(item, selected) == [item EXCEPT !.is_selected = selected]

\* The ids of the items whose selected flag is set.
SelectedIds(its) == {i \in DOMAIN its : its[i].is_selected}

\* set_current_item's first statement: self.items after the previous holder
\* was deselected, the state in which the second statement runs.
deselect_previous(its, cur) ==
    IF Truthy(cur) /\ cur \in DOMAIN its
    THEN [its EXCEPT ![cur] = set_selected(@, FALSE)]
    ELSE its

\* CustomSidebar.set_current_item, as a function of (self.items,
\* self.current_item, item_id) giving the two fields afterwards.
set_current_item(its, cur, item_id) ==
    LET its1 == deselect_previous(its, cur)
    IN  IF item_id \in DOMAIN its1
        THEN [items        |-> [its1 EXCEPT ![item_id] = set_selected(@, TRUE)],
              current_item |-> item_id]
        ELSE [items |-> its1, current_item |-> cur]

\* CustomSidebar.add_item
add_item(its, cur, item_id) ==
    IF item_id \in DOMAIN its
    THEN [items |-> its, current_item |-> cur]
    ELSE [items |-> [i \in DOMAIN its \cup {item_id} |->
                        IF i = item_id THEN SidebarItem ELSE its[i]],
          current_item |-> cur]

\* CustomSidebar.remove_item
remove_item(its, cur, item_id) ==
    IF item_id \in DOMAIN its
    THEN LET its1 == [i \in DOMAIN its \ {item_id} |-> its[i]]
         IN  IF cur = item_id
             THEN set_current_item(its1, cur, "home")
             ELSE [items |-> its1, current_item |-> cur]
    ELSE [items |-> its, current_item |-> cur]

\* What an operation records of the state it started from.
SbRecord(op, arg) ==
    [op |-> op, arg |-> arg, known |-> arg \in DOMAIN items,
     pre_current |-> current_item, pre_selected |-> SelectedIds(items)]

\* CustomSidebar.__init__ + init_ui: five items, then set_current_item("home").
SidebarInit ==
    LET fresh == [i \in InitialIds |-> SidebarItem]
        r     == set_current_item(fresh, None, "home")
    IN  /\ items = r.items
        /\ current_item = r.current_item
        /\ item_clicked = <<>>
        /\ sb_last = [op |-> "init", arg |-> "home", known |-> TRUE,
                      pre_current |-> None, pre_selected |-> {}]

\* A caller invokes set_current_item(item_id).
SetCurrentItem(item_id) ==
    LET r == set_current_item(items, current_item, item_id)
    IN  /\ items' = r.items
        /\ current_item' = r.current_item
        /\ item_clicked' = <<>>
        /\ sb_last' = SbRecord("set_current_item", item_id)
        /\ UNCHANGED <<vault_vars, titlebar_vars, icon_vars>>

\* One emission of item_clicked(item_id) while the sidebar's fields are its
\* and cur.
Emission(item_id, its, cur) ==
    [item_id |-> item_id, current_item |-> cur, selected |-> SelectedIds(its)]

\* on_item_clicked as it would be with the emit before set_current_item.
OnItemClicked_EmitFirst(item_id) ==
    /\ item_id \in DOMAIN items
    /\ item_clicked' = <<Emission(item_id, items, current_item)>>
    /\ LET r == set_current_item(items, current_item, item_id)
       IN  /\ items' = r.items
           /\ current_item' = r.current_item
    /\ sb_last' = SbRecord("on_item_clicked", item_id)
    /\ UNCHANGED <<vault_vars, titlebar_vars, icon_vars>>

\* The user clicks the item registered under item_id: on_item_clicked runs
\* set_current_item(item_id), then emits item_clicked(item_id).
OnItemClicked(item_id) ==
    /\ item_id \in DOMAIN items
    /\ LET r == set_current_item(items, current_item, item_id)
       IN  /\ items' = r.items
           /\ current_item' = r.current_item
           /\ item_clicked' = <<Emission(item_id, r.items, r.current_item)>>
    /\ sb_last' = SbRecord("on_item_clicked", item_id)
    /\ UNCHANGED <<vault_vars, titlebar_vars, icon_vars>>

\* A caller invokes add_item(item_id, ...).
AddItem(item_id) ==
    LET r == add_item(items, current_item, item_id)
    IN  /\ items' = r.items
        /\ current_item' = r.current_item
        /\ item_clicked' = <<>>
        /\ sb_last' = SbRecord("add_item", item_id)
        /\ UNCHANGED <<vault_vars, titlebar_vars, icon_vars>>

\* A caller invokes remove_item(item_id).
RemoveItem(item_id) ==
    LET r == remove_item(items, current_item, item_id)
    IN  /\ items' = r.items
        /\ current_item' = r.current_item
        /\ item_clicked' = <<>>
        /\ sb_last' = SbRecord("remove_item", item_id)
        /\ UNCHANGED <<vault_vars, titlebar_vars, icon_vars>>

SidebarNext ==
    \E item_id \in ItemIds :
        \/ SetCurrentItem(item_id)
        \/ OnItemClicked(item_id)
        \/ AddItem(item_id)
        \/ RemoveItem(item_id)

(***************************************************************************)
(* Claims about CustomSidebar (checked under SpecSidebar)                  *)
(***************************************************************************)

\* C1: after set_current_item(id) with id one of the sidebar's existing items,
\* exactly one item has its selected flag set and it is the item named by the
\* call (current_item = id).
C1_ValidSelectExactlyOne ==
    (sb_last.op = "set_current_item" /\ sb_last.known)
        => /\ SelectedIds(items) = {sb_last.arg}
           /\ current_item = sb_last.arg

\* C2: set_current_item(id) with an id that is no key of items is a no-op:
\* the item selected before the call is still selected and current_item is
\* unchanged.
C2_UnknownIdNoop ==
    (sb_last.op = "set_current_item" /\ ~sb_last.known)
        => /\ SelectedIds(items) = sb_last.pre_selected
           /\ current_item = sb_last.pre_current

\* C3: right after construction "home" is the selected item, and after any
\* completed operation (set_current_item, on_item_clicked, add_item,
\* remove_item) exactly one item has its selected flag set.
C3_ExactlyOneSelected ==
    /\ sb_last.op = "init" => SelectedIds(items) = {"home"}
    /\ Cardinality(SelectedIds(items)) = 1

\* C14: a click on the sidebar item with id x emits item_clicked exactly once,
\* carrying x, after the selection was updated: the signal's slots see
\* current_item = x and item x selected.  set_current_item called directly
\* emits nothing.
C14_ClickEmitsAfterSelect ==
    /\ sb_last.op = "on_item_clicked"
         => /\ Len(item_clicked) = 1
            /\ item_clicked[1].item_id = sb_last.arg
            /\ item_clicked[1].current_item = sb_last.arg
            /\ sb_last.arg \in item_clicked[1].selected
    /\ sb_last.op = "set_current_item" => item_clicked = <<>>

C14_Witness ==
    /\ sb_last.op = "on_item_clicked"
    /\ sb_last.arg = "local"
    /\ sb_last.pre_current = "home"
    /\ item_clicked = <<[item_id |-> "local", current_item |-> "local",
                         selected |-> {"local"}]>>

\* C20: remove_item(x) with x the currently selected item removes x and
\* switches the selection to "home": afterwards current_item = "home", "home"
\* is an item of the sidebar and it is the one selected item.  remove_item of
\* an item that is not the selected one, or of an unknown id, leaves the
\* selection as it was.
C20_RemoveSelectedFallsBack ==
    sb_last.op = "remove_item"
        => IF sb_last.known /\ sb_last.pre_current = sb_last.arg
           THEN /\ sb_last.arg \notin DOMAIN items
                /\ current_item = "home"
                /\ "home" \in DOMAIN items
                /\ SelectedIds(items) = {"home"}
           ELSE /\ current_item = sb_last.pre_current
                /\ SelectedIds(items) = sb_last.pre_selected

\* C21: at no point do two items of the sidebar have their selected flag set
\* at the same time: not between operations, and not in the state inside a
\* set_current_item call in which the previous holder was deselected and the
\* new item is about to be selected.
C21_NeverTwoSelected ==
    /\ Cardinality(SelectedIds(items)) <= 1
    /\ Cardinality(SelectedIds(deselect_previous(items, current_item))) <= 1

(***************************************************************************)
(* VaultWindow: the root directory and the drag-and-drop import            *)
(***************************************************************************)

\* The longest list of urls one drop carries in the model.
MaxDrop == 2

\* A path is the sequence of its components; the empty path <<>> is "".
\* Directories the folder dialog can return.
Dirs == {<<"vault">>, <<"safe">>}

\* The node of a path at which nothing exists.
Absent == [kind |-> "absent", content |-> ""]

\* What lies outside the vault when the window opens.
SourceTree ==
    (<<"tmp", "a.txt">>       :> [kind |-> "file", content |-> "A1"]) @@
    (<<"home", "a.txt">>      :> [kind |-> "file", content |-> "A2"]) @@
    (<<"tmp", "b.txt">>       :> [kind |-> "file", content |-> "B"]) @@
    (<<"tmp", "missing.txt">> :> Absent) @@
    (<<"tmp", "dir">>         :> [kind |-> "dir", content |-> ""])

\* os.path.basename
basename(path) == IF path = <<>> THEN "" ELSE path[Len(path)]

\* os.path.join(directory, name)
join(directory, name) == Append(directory, name)

\* Every path of the model: the sources and what a copy can create.
AllPaths ==
    DOMAIN SourceTree \cup
    {join(d, basename(p)) : d \in Dirs, p \in DOMAIN SourceTree}

\* The urls a drop can carry: file urls of the sources, and one web url.
Urls ==
    {[scheme |-> "file", path |-> p] : p \in DOMAIN SourceTree} \cup
    {[scheme |-> "https", path |-> <<"example.com", "a.txt">>]}

\* QUrl.toLocalFile: the path of a file url, "" for any other url.
toLocalFile(url) == IF url.scheme = "file" THEN url.path ELSE <<>>

\* os.path.exists, had it been used in place of os.path.isfile.
isfile_Exists(tree, path) == path \in DOMAIN tree /\ tree[path].kind # "absent"

\* os.path.isfile
isfile(tree, path) == path \in DOMAIN tree /\ tree[path].kind = "file"

\* The lists of urls a drop can carry, the empty list included.
DropLists == UNION {[1..n -> Urls] : n \in 0..MaxDrop}

\* How shutil.copy2 can end: it returns, it raises before it writes, or it
\* raises after it truncated the destination and wrote part of the data.
CopyResults == {"ok", "PermissionError", "OSError"}

\* copy2 as it would be if it left an existing destination alone.
copy2_NoOverwrite(tree, src, dst, result) ==
    CASE result = "ok" /\ tree[dst].kind = "absent" ->
            [tree EXCEPT ![dst] = [kind |-> "file", content |-> tree[src].content]]
      [] result = "ok" /\ tree[dst].kind # "absent" -> tree
      [] result = "PermissionError" -> tree
      [] result = "OSError" ->
            [tree EXCEPT ![dst] = [kind |-> "file", content |-> "<partial>"]]

\* copy2 as it would be if it wrote after the data an existing destination
\* holds instead of replacing it.
copy2_Append(tree, src, dst, result) ==
    CASE result = "ok" /\ tree[dst].kind = "absent" ->
            [tree EXCEPT ![dst] = [kind |-> "file", content |-> tree[src].content]]
      [] result = "ok" /\ tree[dst].kind # "absent" ->
            [tree EXCEPT ![dst] = [kind |-> "file", content |-> "<appended>"]]
      [] result = "PermissionError" -> tree
      [] result = "OSError" ->
            [tree EXCEPT ![dst] = [kind |-> "file", content |-> "<partial>"]]

\* shutil.copy2(src, dst) ending as `result`: the filesystem afterwards.
copy2(tree, src, dst, result) ==
    CASE result = "ok" ->
            [tree EXCEPT ![dst] = [kind |-> "file", content |-> tree[src].content]]
      [] result = "PermissionError" -> tree
      [] result = "OSError" ->
            [tree EXCEPT ![dst] = [kind |-> "file", content |-> "<partial>"]]

\* The end-of-batch message box, dropEvent lines 270-302.
Summary(copied, failed) ==
    IF copied > 0
    THEN IF failed # <<>>
         THEN [box |-> "warning", kind |-> "partial", copied |-> copied, failed |-> failed]
         ELSE [box |-> "information", kind |-> "success", copied |-> copied]
    ELSE IF failed # <<>>
         THEN [box |-> "critical", kind |-> "all_failed", failed |-> failed]
         ELSE [box |-> "warning", kind |-> "no_valid"]

\* The "choose a vault folder first" box, dropEvent lines 235-239.
NoDirNotice == [box |-> "warning", kind |-> "no_dir"]

DropLocalsIdle ==
    /\ pc = "idle"
    /\ urls = <<>>
    /\ idx = 0
    /\ copied_count = 0
    /\ failed_files = <<>>
    /\ notices = <<>>
    /\ event = "pending"
    /\ outcomes = <<>>

\* VaultWindow.__init__ + init_ui.
VaultInit ==
    /\ vault_dir = <<>>
    /\ root_path = <<>>
    /\ status_msg = [text |-> "unset"]
    /\ fs = [p \in AllPaths |->
                IF p \in DOMAIN SourceTree THEN SourceTree[p] ELSE Absent]
    /\ DropLocalsIdle
    /\ fs_pre = fs

\* choose_vault_dir as it would be without the test of the dialog's result.
ChooseVaultDir_NoCancelTest(directory) ==
    /\ pc = "idle"
    /\ vault_dir' = directory
    /\ root_path' = directory
    /\ status_msg' = [text |-> "current", dir |-> directory]
    /\ UNCHANGED <<fs, drop_vars, sidebar_vars, titlebar_vars, icon_vars>>

\* choose_vault_dir as it would be without the two calls that re-root the
\* listing.
ChooseVaultDir_NoReroot(directory) ==
    /\ pc = "idle"
    /\ IF directory # <<>>
       THEN /\ vault_dir' = directory
            /\ status_msg' = [text |-> "current", dir |-> directory]
            /\ UNCHANGED root_path
       ELSE UNCHANGED choice_vars
    /\ UNCHANGED <<fs, drop_vars, sidebar_vars, titlebar_vars, icon_vars>>

\* VaultWindow.choose_vault_dir; `directory` is what the folder dialog
\* returns, "" when it is cancelled.
ChooseVaultDir(directory) ==
    /\ pc = "idle"
    /\ IF directory # <<>>
       THEN /\ vault_dir' = directory
            /\ root_path' = directory
            /\ status_msg' = [text |-> "current", dir |-> directory]
       ELSE UNCHANGED choice_vars
    /\ UNCHANGED <<fs, drop_vars, sidebar_vars, titlebar_vars, icon_vars>>

\* dropEvent without the test of self.vault_dir.
DropEnter_NoDirCheck(dropped) ==
    /\ pc = "idle"
    /\ urls' = dropped
    /\ fs_pre' = fs
    /\ copied_count' = 0
    /\ failed_files' = <<>>
    /\ outcomes' = <<>>
    /\ notices' = <<>>
    /\ IF dropped = <<>>
       THEN /\ event' = "ignored"
            /\ pc' = "done"
            /\ idx' = 0
       ELSE /\ event' = "pending"
            /\ pc' = "loop"
            /\ idx' = 1
    /\ UNCHANGED <<choice_vars, fs, sidebar_vars, titlebar_vars, icon_vars>>

\* dropEvent as it would be with the test of self.vault_dir before the test
\* of the url list.
DropEnter_DirCheckFirst(dropped) ==
    /\ pc = "idle"
    /\ urls' = dropped
    /\ fs_pre' = fs
    /\ copied_count' = 0
    /\ failed_files' = <<>>
    /\ outcomes' = <<>>
    /\ IF vault_dir = <<>>
       THEN /\ notices' = <<NoDirNotice>>
            /\ event' = "ignored"
            /\ pc' = "done"
            /\ idx' = 0
       ELSE IF dropped = <<>>
       THEN /\ event' = "ignored"
            /\ notices' = <<>>
            /\ pc' = "done"
            /\ idx' = 0
       ELSE /\ notices' = <<>>
            /\ event' = "pending"
            /\ pc' = "loop"
            /\ idx' = 1
    /\ UNCHANGED <<choice_vars, fs, sidebar_vars, titlebar_vars, icon_vars>>

\* dropEvent, lines 224-245: the two early returns, else the loop is entered.
DropEnter(dropped) ==
    /\ pc = "idle"
    /\ urls' = dropped
    /\ fs_pre' = fs
    /\ copied_count' = 0
    /\ failed_files' = <<>>
    /\ outcomes' = <<>>
    /\ IF dropped = <<>>
       THEN /\ event' = "ignored"
            /\ notices' = <<>>
            /\ pc' = "done"
            /\ idx' = 0
       ELSE IF vault_dir = <<>>
       THEN /\ notices' = <<NoDirNotice>>
            /\ event' = "ignored"
            /\ pc' = "done"
            /\ idx' = 0
       ELSE /\ notices' = <<>>
            /\ event' = "pending"
            /\ pc' = "loop"
            /\ idx' = 1
    /\ UNCHANGED <<choice_vars, fs, sidebar_vars, titlebar_vars, icon_vars>>

\* dropEvent's loop body as it would be if it skipped a path whose destination exists.
DropStep_SkipExisting(result) ==
    /\ pc = "loop"
    /\ idx <= Len(urls)
    /\ LET local_path == toLocalFile(urls[idx])
       IN  IF local_path = <<>> \/ ~isfile(fs, local_path)
           THEN /\ result = "ok"
                /\ outcomes' = Append(outcomes, [res |-> "skipped", err |-> ""])
                /\ UNCHANGED <<fs, copied_count, failed_files>>
                /\ idx' = idx + 1
           ELSE LET file_name == basename(local_path)
                    dest_path == join(vault_dir, file_name)
                IN  IF fs[dest_path].kind # "absent"
                    THEN /\ result = "ok"
                         /\ outcomes' = Append(outcomes, [res |-> "skipped", err |-> ""])
                         /\ UNCHANGED <<fs, copied_count, failed_files>>
                         /\ idx' = idx + 1
                    ELSE /\ fs' = copy2(fs, local_path, dest_path, result)
                         /\ idx' = idx + 1
                         /\ IF result = "ok"
                            THEN /\ copied_count' = copied_count + 1
                                 /\ outcomes' = Append(outcomes, [res |-> "copied", err |-> ""])
                                 /\ UNCHANGED failed_files
                            ELSE /\ failed_files' =
                                        Append(failed_files, <<basename(local_path), result>>)
                                 /\ outcomes' = Append(outcomes, [res |-> "failed", err |-> result])
                                 /\ UNCHANGED copied_count
    /\ UNCHANGED <<choice_vars, pc, urls, notices, event, fs_pre, sidebar_vars, titlebar_vars, icon_vars>>

\* dropEvent's loop body as it would be if a failed copy left the loop (break).
DropStep_BreakOnFailure(result) ==
    /\ pc = "loop"
    /\ idx <= Len(urls)
    /\ LET local_path == toLocalFile(urls[idx])
       IN  IF local_path = <<>> \/ ~isfile(fs, local_path)
           THEN /\ result = "ok"
                /\ outcomes' = Append(outcomes, [res |-> "skipped", err |-> ""])
                /\ UNCHANGED <<fs, copied_count, failed_files>>
                /\ idx' = idx + 1
           ELSE LET file_name == basename(local_path)
                    dest_path == join(vault_dir, file_name)
                IN  /\ fs' = copy2(fs, local_path, dest_path, result)
                    /\ IF result = "ok"
                       THEN /\ copied_count' = copied_count + 1
                            /\ outcomes' = Append(outcomes, [res |-> "copied", err |-> ""])
                            /\ idx' = idx + 1
                            /\ UNCHANGED failed_files
                       ELSE /\ failed_files' =
                                   Append(failed_files, <<basename(local_path), result>>)
                            /\ outcomes' = Append(outcomes, [res |-> "failed", err |-> result])
                            /\ idx' = Len(urls) + 1
                            /\ UNCHANGED copied_count
    /\ UNCHANGED <<choice_vars, pc, urls, notices, event, fs_pre, sidebar_vars, titlebar_vars, icon_vars>>

\* dropEvent's loop body as it would be if copied_count were incremented before copy2 is called.
DropStep_CountBeforeCopy(result) ==
    /\ pc = "loop"
    /\ idx <= Len(urls)
    /\ LET local_path == toLocalFile(urls[idx])
       IN  IF local_path = <<>> \/ ~isfile(fs, local_path)
           THEN /\ result = "ok"
                /\ outcomes' = Append(outcomes, [res |-> "skipped", err |-> ""])
                /\ UNCHANGED <<fs, copied_count, failed_files>>
                /\ idx' = idx + 1
           ELSE LET file_name == basename(local_path)
                    dest_path == join(vault_dir, file_name)
                IN  /\ fs' = copy2(fs, local_path, dest_path, result)
                    /\ idx' = idx + 1
                    /\ copied_count' = copied_count + 1
                    /\ IF result = "ok"
                       THEN /\ outcomes' = Append(outcomes, [res |-> "copied", err |-> ""])
                            /\ UNCHANGED failed_files
                       ELSE /\ failed_files' =
                                   Append(failed_files, <<basename(local_path), result>>)
                            /\ outcomes' = Append(outcomes, [res |-> "failed", err |-> result])
    /\ UNCHANGED <<choice_vars, pc, urls, notices, event, fs_pre, sidebar_vars, titlebar_vars, icon_vars>>

\* dropEvent's loop body as it would be if a path that is no regular file
\* were recorded as a failure instead of passed over.
DropStep_SkipAsFailure(result) ==
    /\ pc = "loop"
    /\ idx <= Len(urls)
    /\ LET local_path == toLocalFile(urls[idx])
       IN  IF local_path = <<>> \/ ~isfile(fs, local_path)
           THEN /\ result = "ok"
                /\ outcomes' = Append(outcomes, [res |-> "skipped", err |-> ""])
                /\ failed_files' = Append(failed_files, <<basename(local_path), "not a file">>)
                /\ UNCHANGED <<fs, copied_count>>
           ELSE LET file_name == basename(local_path)
                    dest_path == join(vault_dir, file_name)
                IN  /\ fs' = copy2(fs, local_path, dest_path, result)
                    /\ IF result = "ok"
                       THEN /\ copied_count' = copied_count + 1
                            /\ outcomes' = Append(outcomes, [res |-> "copied", err |-> ""])
                            /\ UNCHANGED failed_files
                       ELSE /\ failed_files' =
                                   Append(failed_files, <<basename(local_path), result>>)
                            /\ outcomes' = Append(outcomes, [res |-> "failed", err |-> result])
                            /\ UNCHANGED copied_count
    /\ idx' = idx + 1
    /\ UNCHANGED <<choice_vars, pc, urls, notices, event, fs_pre, sidebar_vars, titlebar_vars, icon_vars>>

\* dropEvent's loop body as it would be without the try / except: a copy that
\* raises ends the handler there, before the summary and the accept.
DropStep_Uncaught(result) ==
    /\ pc = "loop"
    /\ idx <= Len(urls)
    /\ LET local_path == toLocalFile(urls[idx])
       IN  IF local_path = <<>> \/ ~isfile(fs, local_path)
           THEN /\ result = "ok"
                /\ outcomes' = Append(outcomes, [res |-> "skipped", err |-> ""])
                /\ UNCHANGED <<fs, copied_count, failed_files, pc>>
           ELSE LET file_name == basename(local_path)
                    dest_path == join(vault_dir, file_name)
                IN  /\ fs' = copy2(fs, local_path, dest_path, result)
                    /\ IF result = "ok"
                       THEN /\ copied_count' = copied_count + 1
                            /\ outcomes' = Append(outcomes, [res |-> "copied", err |-> ""])
                            /\ UNCHANGED <<failed_files, pc>>
                       ELSE /\ outcomes' = Append(outcomes, [res |-> "failed", err |-> result])
                            /\ pc' = "done"
                            /\ UNCHANGED <<copied_count, failed_files>>
    /\ idx' = idx + 1
    /\ UNCHANGED <<choice_vars, urls, notices, event, fs_pre, sidebar_vars, titlebar_vars, icon_vars>>

\* dropEvent, lines 247-268: one iteration of the for loop; `result` is how
\* shutil.copy2 ends if it is called.
DropStep(result) ==
    /\ pc = "loop"
    /\ idx <= Len(urls)
    /\ LET local_path == toLocalFile(urls[idx])
       IN  IF local_path = <<>> \/ ~isfile(fs, local_path)
           THEN /\ result = "ok"    \* copy2 is not called: one successor
                /\ outcomes' = Append(outcomes, [res |-> "skipped", err |-> ""])
                /\ UNCHANGED <<fs, copied_count, failed_files>>
           ELSE LET file_name == basename(local_path)
                    dest_path == join(vault_dir, file_name)
                IN  /\ fs' = copy2(fs, local_path, dest_path, result)
                    /\ IF result = "ok"
                       THEN /\ copied_count' = copied_count + 1
                            /\ outcomes' = Append(outcomes, [res |-> "copied", err |-> ""])
                            /\ UNCHANGED failed_files
                       ELSE /\ failed_files' =
                                   Append(failed_files, <<basename(local_path), result>>)
                            /\ outcomes' = Append(outcomes, [res |-> "failed", err |-> result])
                            /\ UNCHANGED copied_count
    /\ idx' = idx + 1
    /\ UNCHANGED <<choice_vars, pc, urls, notices, event, fs_pre, sidebar_vars, titlebar_vars, icon_vars>>

\* dropEvent, lines 270-304: the loop is over; one message box, then the
\* event is accepted.
DropSummary ==
    /\ pc = "loop"
    /\ idx > Len(urls)
    /\ notices' = Append(notices, Summary(copied_count, failed_files))
    /\ event' = "accepted"
    /\ pc' = "done"
    /\ UNCHANGED <<choice_vars, fs, urls, idx, copied_count, failed_files, outcomes, fs_pre,
                   sidebar_vars, titlebar_vars, icon_vars>>

\* dropEvent returns: its locals are gone.
DropReturn ==
    /\ pc = "done"
    /\ pc' = "idle"
    /\ urls' = <<>>
    /\ idx' = 0
    /\ copied_count' = 0
    /\ failed_files' = <<>>
    /\ notices' = <<>>
    /\ event' = "pending"
    /\ outcomes' = <<>>
    /\ fs_pre' = fs
    /\ UNCHANGED <<choice_vars, fs, sidebar_vars, titlebar_vars, icon_vars>>

VaultNext ==
    \/ \E directory \in Dirs \cup {<<>>} : ChooseVaultDir(directory)
    \/ \E dropped \in DropLists : DropEnter(dropped)
    \/ \E result \in CopyResults : DropStep(result)
    \/ DropSummary
    \/ DropReturn

(***************************************************************************)
(* Claims about VaultWindow.dropEvent (checked under SpecVault)            *)
(***************************************************************************)

\* The positions of the running drop, and those already processed.
Dropped == 1..Len(urls)
Processed == 1..Len(outcomes)

\* Whether the i-th dropped url names a regular file, read off the tree.
RegularAt(i) ==
    /\ urls[i].scheme = "file"
    /\ SourceTree[urls[i].path].kind = "file"

\* The destination of the i-th dropped url and the content of its source.
DestAt(i) == vault_dir \o <<urls[i].path[Len(urls[i].path)]>>
SourceContentAt(i) == SourceTree[urls[i].path].content

CopiedAt == {i \in Processed : outcomes[i].res = "copied"}
FailedAt == {i \in Processed : outcomes[i].res = "failed"}
SkippedAt == {i \in Processed : outcomes[i].res = "skipped"}

\* The failures of the processed urls, in drop order, as (filename, cause).
RECURSIVE FailuresUpTo(_)
FailuresUpTo(n) ==
    IF n = 0 THEN <<>>
    ELSE IF outcomes[n].res = "failed"
         THEN Append(FailuresUpTo(n - 1),
                     <<urls[n].path[Len(urls[n].path)], outcomes[n].err>>)
         ELSE FailuresUpTo(n - 1)

\* The handler has run to its end for a drop it processed.
ProcessedDrop == pc = "done" /\ urls # <<>> /\ vault_dir # <<>>

\* C4: a drop with at least one path while vault_dir is "" copies nothing,
\* shows exactly one "choose a vault folder first" notice and no summary, and
\* ignores the event.
C4_NoDirRejected ==
    (pc = "done" /\ urls # <<>> /\ vault_dir = <<>>)
        => /\ fs = fs_pre
           /\ outcomes = <<>>
           /\ copied_count = 0
           /\ notices = <<[box |-> "warning", kind |-> "no_dir"]>>
           /\ event = "ignored"

C4_Witness ==
    /\ pc = "done" /\ vault_dir = <<>>
    /\ Len(urls) = 2 /\ RegularAt(1) /\ RegularAt(2)
    /\ Len(notices) = 1

\* C5 as stated: N regular files dropped and no copy failing leave N files at
\* the destination, one per dropped path, each equal to its source, and one
\* summary "N copied, no failures".
C5_NFilesOnePerPath ==
    (ProcessedDrop /\ (\A i \in Dropped : RegularAt(i)) /\ FailedAt = {})
        => /\ Cardinality({DestAt(i) : i \in Dropped}) = Len(urls)
           /\ \A i \in Dropped :
                fs[DestAt(i)] = [kind |-> "file", content |-> SourceContentAt(i)]
           /\ notices = <<[box |-> "information", kind |-> "success",
                           copied |-> Len(urls)]>>

\* C5 amended: N regular files dropped and no copy failing leave one file
\* per distinct base filename among the dropped paths, its content that of the
\* last dropped path with that base filename (so N files, each equal to its
\* source, when the base filenames differ), and one summary "N copied, no
\* failures".
C5_AllCopiedLastWins ==
    (ProcessedDrop /\ (\A i \in Dropped : RegularAt(i)) /\ FailedAt = {})
        => /\ \A i \in Dropped :
                LET last == CHOOSE j \in Dropped :
                                /\ DestAt(j) = DestAt(i)
                                /\ \A k \in Dropped : DestAt(k) = DestAt(i) => k <= j
                IN  fs[DestAt(i)] = [kind |-> "file", content |-> SourceContentAt(last)]
           /\ \A p \in DOMAIN fs :
                (p \notin {DestAt(i) : i \in Dropped}) => fs[p] = fs_pre[p]
           /\ notices = <<[box |-> "information", kind |-> "success",
                           copied |-> Len(urls)]>>

C5_Witness ==
    /\ ProcessedDrop /\ Len(urls) = 2
    /\ RegularAt(1) /\ RegularAt(2) /\ DestAt(1) # DestAt(2)
    /\ CopiedAt = {1, 2}
    /\ fs[DestAt(1)].content = SourceContentAt(1)
    /\ fs[DestAt(2)].content = SourceContentAt(2)
    /\ Len(notices) = 1 /\ notices[1].kind = "success"

\* C6: a regular file dropped onto a name already present in the root
\* directory overwrites it without asking: unless the copy itself fails, once
\* the path is processed the destination holds the dropped source's content,
\* not the old one, and the file is counted as copied.
C6_OverwriteExisting ==
    \A i \in Processed :
        (/\ i = Len(outcomes)
         /\ RegularAt(i)
         /\ outcomes[i].res # "failed"
         /\ fs_pre[DestAt(i)].kind = "file")
            => /\ outcomes[i].res = "copied"
               /\ fs[DestAt(i)] = [kind |-> "file", content |-> SourceContentAt(i)]
               /\ copied_count = Cardinality(CopiedAt)
               /\ pc = "loop" => notices = <<>>

C6_Witness ==
    /\ ProcessedDrop /\ Len(urls) = 1 /\ CopiedAt = {1}
    /\ fs_pre[DestAt(1)].kind = "file"
    /\ fs_pre[DestAt(1)].content # SourceContentAt(1)
    /\ fs[DestAt(1)].content = SourceContentAt(1)
    /\ copied_count = 1

\* C7: a copy failure does not stop the loop and is not rolled back: every
\* later path is still attempted, files copied before or after the failure
\* stay at the destination, and each failed file is recorded with its
\* filename and error cause.
C7_FailureDoesNotStop ==
    /\ (pc = "done" /\ event = "accepted") => Len(outcomes) = Len(urls)
    /\ pc = "loop" => idx = Len(outcomes) + 1
    /\ \A i \in Processed : RegularAt(i) => outcomes[i].res \in {"copied", "failed"}
    /\ \A i \in CopiedAt : fs[DestAt(i)].kind = "file"
    /\ failed_files = FailuresUpTo(Len(outcomes))

C7_Witness ==
    /\ ProcessedDrop /\ Len(urls) = 2
    /\ outcomes[1].res = "failed" /\ outcomes[2].res = "copied"
    /\ DestAt(1) # DestAt(2)
    /\ fs[DestAt(2)].content = SourceContentAt(2)
    /\ Len(failed_files) = 1

\* What a summary box states: its copied count (the two boxes without a
\* number are the ones shown when nothing was copied) and its failure list.
StatedCopied(n) == IF n.kind \in {"partial", "success"} THEN n.copied ELSE 0
StatedFailed(n) == IF n.kind \in {"partial", "all_failed"} THEN n.failed ELSE <<>>

\* C8: every processed drop shows exactly one summary, and only after every
\* path has been processed; the copied count it states is the number of copies
\* that succeeded, and it lists the filename and cause of every failure and of
\* nothing else.
C8_OneSummaryAtEnd ==
    /\ pc = "loop" => notices = <<>>
    /\ ProcessedDrop =>
        /\ Len(outcomes) = Len(urls)
        /\ Len(notices) = 1
        /\ notices[1].kind \in {"partial", "success", "all_failed", "no_valid"}
        /\ StatedCopied(notices[1]) = Cardinality(CopiedAt)
        /\ StatedFailed(notices[1]) = FailuresUpTo(Len(urls))
        /\ notices[1].kind \in {"all_failed", "no_valid"} => CopiedAt = {}
        /\ notices[1].kind \in {"success", "no_valid"} => FailedAt = {}

C8_Witness ==
    /\ ProcessedDrop /\ Len(urls) = 2
    /\ Cardinality(CopiedAt) = 1 /\ Cardinality(FailedAt) = 1
    /\ notices = <<[box |-> "warning", kind |-> "partial", copied |-> 1,
                    failed |-> FailuresUpTo(2)]>>

\* C9: a dropped path that is no regular file (missing, a directory, a url
\* with no local path) is skipped: nothing is copied for it and it counts
\* neither as copied nor as failed; a drop of such paths only ends with 0
\* copied and 0 failures.
C9_NonRegularSkipped ==
    /\ \A i \in Processed : ~RegularAt(i) => outcomes[i].res = "skipped"
    /\ copied_count + Len(failed_files) = Cardinality({i \in Processed : RegularAt(i)})
    /\ (pc # "idle" /\ \A i \in Processed : ~RegularAt(i)) => fs = fs_pre
    /\ (ProcessedDrop /\ \A i \in Dropped : ~RegularAt(i))
        => /\ copied_count = 0
           /\ failed_files = <<>>
           /\ notices = <<[box |-> "warning", kind |-> "no_valid"]>>
           /\ event = "accepted"

C9_Witness ==
    /\ ProcessedDrop /\ Len(urls) = 2
    /\ urls[1].scheme = "file" /\ SourceTree[urls[1].path].kind = "dir"
    /\ urls[2].scheme # "file"
    /\ SkippedAt = {1, 2}
    /\ Len(notices) = 1

(***************************************************************************)
(* CustomTitleBar and its UserSettingsMenu popover                         *)
(***************************************************************************)

\* How many trigger toggles the model counts from the start.
MaxToggles == 4

\* The pointer's x runs over 0..MaxCoord, and the window travels at most
\* MaxCoord to either side of where it opened.
MaxCoord == 1

\* The pointer's y, and the rows the window may travel up or down.
PointerRows == {0, 1}

\* settings_btn.setFixedSize(30, 30)
BtnWidth == 30
BtnHeight == 30

\* UserSettingsMenu.setFixedWidth(280)
MenuWidth == 280

\* The heights init_ui fixes: the user info block, the separator line, one
\* menu entry, and the margin above and below the entries.
UserInfoHeight == 80
SeparatorHeight == 1
MenuItemHeight == 40
MenuItemsMargin == 8

\* The signals of the menu's entries: logout and the six menu items.
MenuEntries == {"logout_clicked", "payment_methods_clicked", "redeem_code_clicked",
                "payment_help_clicked", "manage_account_clicked",
                "send_feedback_clicked", "storage_settings_clicked"}

\* init_ui's menu_items: the label and the signal create_menu_item is given for
\* each of the six items.
menu_items ==
    << [text |-> "payment methods",  signal |-> "payment_methods_clicked"],
       [text |-> "redeem code",      signal |-> "redeem_code_clicked"],
       [text |-> "payment help",     signal |-> "payment_help_clicked"],
       [text |-> "manage account",   signal |-> "manage_account_clicked"],
       [text |-> "send feedback",    signal |-> "send_feedback_clicked"],
       [text |-> "storage settings", signal |-> "storage_settings_clicked"] >>

\* The buttons of the menu: logout_btn and one button per menu item.
MenuButtons == {"logout_btn"} \cup {menu_items[i].text : i \in DOMAIN menu_items}

\* The signal the button's clicked handler emits: on_logout_clicked emits
\* logout_clicked, on_item_clicked the signal create_menu_item was given.
signal_of(button) ==
    IF button = "logout_btn"
    THEN "logout_clicked"
    ELSE LET i == CHOOSE j \in DOMAIN menu_items : menu_items[j].text = button
         IN  menu_items[i].signal

\* What VaultWindow, the title bar's parent(), has for attributes.
ParentAttributes == {"vault_dir", "title_bar", "top_bar", "file_model", "list_view"}

hasattr(attributes, name) == name \in attributes

\* The height adjustSize() gives the menu: its layout's size hint.
MenuHeight ==
    UserInfoHeight + SeparatorHeight + 2 * MenuItemsMargin
        + (Cardinality(MenuEntries) - 1) * MenuItemHeight

\* setGeometry(100, 100, 900, 600): where the window opens.
InitialWindowPos == <<100, 100>>

\* Where the layout puts settings_btn inside the window (the title bar is the
\* window's top strip, so its origin is the window's).
BtnOffset == <<700, 10>>

QRect(x, y, w, h) == [x |-> x, y |-> y, width |-> w, height |-> h]

Pointer == (0..MaxCoord) \X PointerRows

WindowPositions ==
    {<<InitialWindowPos[1] + dx, InitialWindowPos[2] + dy>> :
        dx \in -MaxCoord..MaxCoord, dy \in {r - q : r, q \in PointerRows}}

\* settings_btn.mapToGlobal(QPoint(0, 0))
mapToGlobal(win) == <<win[1] + BtnOffset[1], win[2] + BtnOffset[2]>>

\* CustomTitleBar.__init__: init_ui, then the menu is created and hidden.
TitleBarInit ==
    /\ settings_btn_checked = FALSE
    /\ menu_visible = FALSE
    /\ menu_geometry = QRect(0, 0, MenuWidth, 0)
    /\ anim_state = "Stopped"
    /\ anim_end = QRect(0, 0, MenuWidth, 0)
    /\ drag_position = <<>>
    /\ press_offset = <<>>
    /\ window_pos = InitialWindowPos
    /\ emitted = <<>>
    /\ toggles = 0

\* UserSettingsMenu.show_at_position(pos)
show_at_position(pos) ==
    LET start_rect == QRect(pos[1], pos[2], MenuWidth, 0)
        final_rect == QRect(pos[1], pos[2], MenuWidth, MenuHeight)
    IN  /\ menu_geometry' = start_rect
        /\ menu_visible' = TRUE
        /\ IF anim_state # "Running"
           THEN /\ anim_end' = final_rect
                /\ anim_state' = "Running"
           ELSE UNCHANGED <<anim_end, anim_state>>

\* CustomTitleBar.show_user_menu; _menu_was_open_on_press is never set, so
\* getattr(self, "_menu_was_open_on_press", False) is False.
show_user_menu ==
    IF ~menu_visible
    THEN LET button_pos == mapToGlobal(window_pos)
             menu_x == button_pos[1] + BtnWidth - MenuWidth
             menu_y == button_pos[2] + BtnHeight + 4
         IN  show_at_position(<<menu_x, menu_y>>)
    ELSE UNCHANGED <<menu_geometry, menu_visible, anim_end, anim_state>>

\* toggle_user_menu as it would be with the button wired to show_user_menu.
toggle_user_menu_ShowOnly(checked) == show_user_menu

\* CustomTitleBar.toggle_user_menu(checked)
toggle_user_menu(checked) ==
    IF checked
    THEN show_user_menu
    ELSE /\ menu_visible' = FALSE
         /\ UNCHANGED <<menu_geometry, anim_end, anim_state>>

\* The checkable trigger button is toggled: its checked state flips and
\* toggled(checked) calls toggle_user_menu.
ToggleSettingsBtn ==
    /\ settings_btn_checked' = ~settings_btn_checked
    /\ toggle_user_menu(~settings_btn_checked)
    /\ toggles' = IF toggles >= 0 /\ toggles < MaxToggles THEN toggles + 1 ELSE -1
    /\ emitted' = <<>>
    /\ UNCHANGED <<drag_vars, sidebar_vars, vault_vars, icon_vars>>

\* focusOutEvent as it would be if it flipped the menu's visibility.
FocusOutEvent_Flip ==
    /\ menu_visible' = ~menu_visible
    /\ toggles' = -1
    /\ emitted' = <<>>
    /\ UNCHANGED <<settings_btn_checked, menu_geometry, anim_end, anim_state,
                   drag_vars, sidebar_vars, vault_vars, icon_vars>>

\* UserSettingsMenu.focusOutEvent: hide().
FocusOutEvent ==
    /\ menu_visible' = FALSE
    /\ toggles' = -1
    /\ emitted' = <<>>
    /\ UNCHANGED <<settings_btn_checked, menu_geometry, anim_end, anim_state,
                   drag_vars, sidebar_vars, vault_vars, icon_vars>>

\* CustomTitleBar.hideEvent: the title bar is being hidden.  The button it
\* unchecks is parent().settings_btn, and only if the parent has one: the
\* title bar's own settings_btn and its menu are not touched.
HideEvent ==
    /\ IF hasattr(ParentAttributes, "settings_btn")
       THEN UNCHANGED settings_btn_checked  \* parent().settings_btn is another button
       ELSE UNCHANGED settings_btn_checked
    /\ emitted' = <<>>
    /\ UNCHANGED <<menu_visible, menu_geometry, anim_end, anim_state, toggles,
                   drag_vars, sidebar_vars, vault_vars, icon_vars>>

\* on_item_clicked as it would be with hide() before signal.emit().
MenuEntryClicked_HideFirst(entry) ==
    /\ menu_visible
    /\ menu_visible' = FALSE
    /\ emitted' = <<[signal |-> signal_of(entry), menu_visible |-> FALSE]>>
    /\ toggles' = -1
    /\ UNCHANGED <<settings_btn_checked, menu_geometry, anim_end, anim_state,
                   drag_vars, sidebar_vars, vault_vars, icon_vars>>

\* A button of the visible menu is clicked: on_logout_clicked /
\* on_item_clicked emit the button's signal (its slots run while the menu is
\* still shown), then hide().
MenuEntryClicked(entry) ==
    /\ menu_visible
    /\ emitted' = <<[signal |-> signal_of(entry), menu_visible |-> menu_visible]>>
    /\ menu_visible' = FALSE
    /\ toggles' = -1
    /\ UNCHANGED <<settings_btn_checked, menu_geometry, anim_end, anim_state,
                   drag_vars, sidebar_vars, vault_vars, icon_vars>>

\* The geometry animation reaches its end value (200 ms after start()).
AnimationFinished ==
    /\ anim_state = "Running"
    /\ menu_geometry' = anim_end
    /\ anim_state' = "Stopped"
    /\ emitted' = <<>>
    /\ UNCHANGED <<settings_btn_checked, menu_visible, anim_end, toggles,
                   drag_vars, sidebar_vars, vault_vars, icon_vars>>

\* CustomTitleBar.mousePressEvent with the pointer at p.
MousePressEvent(button, p) ==
    /\ drag_position' = IF button = "LeftButton" THEN <<p>> ELSE drag_position
    /\ press_offset' = IF button = "LeftButton"
                       THEN << <<window_pos[1] - p[1], window_pos[2] - p[2]>> >>
                       ELSE press_offset
    /\ emitted' = <<>>
    /\ UNCHANGED <<window_pos, menu_vars, sidebar_vars, vault_vars, icon_vars>>

\* mouseMoveEvent as it would be without the last assignment, the one that
\* moves _drag_position on to the pointer.
MouseMoveEvent_NoRebase(p) ==
    /\ IF drag_position # <<>>
       THEN LET delta == <<p[1] - drag_position[1][1], p[2] - drag_position[1][2]>>
                moved == <<window_pos[1] + delta[1], window_pos[2] + delta[2]>>
            IN  /\ moved \in WindowPositions
                /\ window_pos' = moved
                /\ UNCHANGED drag_position
       ELSE UNCHANGED <<window_pos, drag_position>>
    /\ emitted' = <<>>
    /\ UNCHANGED <<press_offset, menu_vars, sidebar_vars, vault_vars, icon_vars>>

\* CustomTitleBar.mouseMoveEvent with the pointer at p.
MouseMoveEvent(p) ==
    /\ IF drag_position # <<>>
       THEN LET delta == <<p[1] - drag_position[1][1], p[2] - drag_position[1][2]>>
                moved == <<window_pos[1] + delta[1], window_pos[2] + delta[2]>>
            IN  /\ moved \in WindowPositions
                /\ window_pos' = moved
                /\ drag_position' = <<p>>
       ELSE UNCHANGED <<window_pos, drag_position>>
    /\ emitted' = <<>>
    /\ UNCHANGED <<press_offset, menu_vars, sidebar_vars, vault_vars, icon_vars>>

\* CustomTitleBar.mouseReleaseEvent
MouseReleaseEvent ==
    /\ drag_position' = <<>>
    /\ press_offset' = <<>>
    /\ emitted' = <<>>
    /\ UNCHANGED <<window_pos, menu_vars, sidebar_vars, vault_vars, icon_vars>>

TitleBarNext ==
    \/ ToggleSettingsBtn
    \/ FocusOutEvent
    \/ HideEvent
    \/ \E entry \in MenuButtons : MenuEntryClicked(entry)
    \/ AnimationFinished
    \/ \E button \in {"LeftButton", "RightButton"}, p \in Pointer : MousePressEvent(button, p)
    \/ \E p \in Pointer : MouseMoveEvent(p)
    \/ MouseReleaseEvent

(***************************************************************************)
(* Claims about the popover (checked under SpecTitleBar)                   *)
(***************************************************************************)

\* C10: from Closed, with nothing but trigger toggles applied, the user menu
\* is Closed (hidden) after an even number of toggles and Open (visible) after
\* an odd number.
C10_ToggleParity ==
    toggles >= 0 => (menu_visible <=> toggles % 2 = 1)

C10_Witness ==
    /\ toggles = 2
    /\ ~menu_visible
    /\ ~settings_btn_checked

\* C11: in every reachable state, also after the popover was closed by focus
\* loss or by a menu button, one click on the trigger button flips the popover:
\* a Closed menu is opened, an Open menu is closed.
C11_ClickFlips ==
    [][ToggleSettingsBtn => (menu_visible' = ~menu_visible)]_vars

\* C12: the user menu goes from Closed to Open only in a step that toggles the
\* trigger button on; focus loss and a click on a menu button never open it:
\* after focus loss the menu is Closed, whether it was Open or Closed, and after
\* a click on a menu button it is Closed.
C12_OpensOnlyByTrigger ==
    [][ /\ (~menu_visible /\ menu_visible')
             => (~settings_btn_checked /\ settings_btn_checked')
        /\ FocusOutEvent => ~menu_visible'
        /\ \A b \in MenuButtons : MenuEntryClicked(b) => ~menu_visible' ]_vars

\* The menu was opened by the trigger and then closed by something else: the
\* trigger is still checked.
C12_Witness ==
    /\ ~menu_visible
    /\ settings_btn_checked
    /\ toggles = -1
    /\ emitted = <<>>

\* The signal each button of the menu stands for.
StatedSignal ==
    [b \in MenuButtons |->
        CASE b = "logout_btn"       -> "logout_clicked"
          [] b = "payment methods"  -> "payment_methods_clicked"
          [] b = "redeem code"      -> "redeem_code_clicked"
          [] b = "payment help"     -> "payment_help_clicked"
          [] b = "manage account"   -> "manage_account_clicked"
          [] b = "send feedback"    -> "send_feedback_clicked"
          [] b = "storage settings" -> "storage_settings_clicked"]

\* C13: activating a button of the Open user menu (logout or one of the six
\* items) emits that button's signal, exactly once and nothing else, while the
\* menu is still shown, and the menu is Closed when the activation completes.
C13_EmitThenClose ==
    [][\A b \in MenuButtons :
          MenuEntryClicked(b)
            => /\ emitted' = <<[signal |-> StatedSignal[b], menu_visible |-> TRUE]>>
               /\ ~menu_visible']_vars

C13_Witness ==
    /\ Len(emitted) = 1
    /\ emitted[1].signal = "storage_settings_clicked"
    /\ emitted[1].menu_visible
    /\ ~menu_visible

\* C18: whenever the user menu is hidden (by a trigger toggle, by focus loss or
\* by a click on a menu button) the trigger button settings_btn is unchecked:
\* between handlers the button is checked if and only if the menu is visible.
C18_CheckedIffVisible ==
    settings_btn_checked <=> menu_visible

\* C19: when the popover is opened again while the animation of an earlier open
\* is still running, the menu is Open and the animation ends at the geometry of
\* the latest open: at the position show_at_position was last given, with the
\* menu's full height.
C19_LatestTargetWins ==
    [][ /\ (ToggleSettingsBtn /\ settings_btn_checked') => menu_visible'
        /\ (AnimationFinished /\ menu_visible)
             => menu_geometry'
                  = QRect(menu_geometry.x, menu_geometry.y, MenuWidth, MenuHeight) ]_vars

\* C23: a step that opens the popover anchors it to the trigger button: with
\* the button's global top-left (bx, by), its size (bw, bh) and the menu's
\* width mw, the menu is shown at x = bx + bw - mw, y = by + bh + 4 with height
\* 0, and the animation then running ends at the menu's full height with the
\* same x, y and width.
C23_AnchoredExpand ==
    [][(ToggleSettingsBtn /\ ~menu_visible /\ menu_visible')
         => LET bx == window_pos[1] + BtnOffset[1]
                by == window_pos[2] + BtnOffset[2]
                x  == bx + BtnWidth - MenuWidth
                y  == by + BtnHeight + 4
            IN  /\ menu_geometry' = QRect(x, y, MenuWidth, 0)
                /\ anim_state' = "Running"
                /\ anim_end' = QRect(x, y, MenuWidth, MenuHeight)]_vars

\* C24: in a processed drop every dropped path is in exactly one of three
\* classes: skipped (it names no regular file), copied, or failed; copied_count
\* is the number of copied paths, failed_files has one entry per failed path,
\* and the three numbers add up to the number of dropped paths.
C24_ThreeClasses ==
    ProcessedDrop
        => /\ Len(outcomes) = Len(urls)
           /\ \A i \in Dropped :
                /\ outcomes[i].res \in {"skipped", "copied", "failed"}
                /\ outcomes[i].res = "skipped" <=> ~RegularAt(i)
           /\ copied_count = Cardinality(CopiedAt)
           /\ Len(failed_files) = Cardinality(FailedAt)
           /\ copied_count + Len(failed_files)
                + Cardinality({i \in Dropped : ~RegularAt(i)}) = Len(urls)

C24_Witness ==
    /\ ProcessedDrop /\ Len(urls) = 2
    /\ ~RegularAt(1) /\ RegularAt(2)
    /\ SkippedAt = {1} /\ FailedAt = {2}
    /\ copied_count = 0 /\ Len(failed_files) = 1

\* The base filename of the i-th dropped url.
NameAt(i) == urls[i].path[Len(urls[i].path)]

\* C25: when two paths of one drop are regular files with the same base
\* filename and neither copy raises, both are copied, in drop order, to the
\* one destination of that name: the destination holds the content of the
\* later path, no file is written under another name, and the summary counts
\* both as copied.
C25_SameNameLaterWins ==
    ProcessedDrop
        => \A i, j \in Dropped :
              (/\ i < j
               /\ RegularAt(i) /\ RegularAt(j)
               /\ NameAt(i) = NameAt(j)
               /\ outcomes[i].res # "failed" /\ outcomes[j].res # "failed"
               /\ \A k \in Dropped : (k > j /\ RegularAt(k)) => NameAt(k) # NameAt(j))
                => /\ outcomes[i].res = "copied" /\ outcomes[j].res = "copied"
                   /\ fs[vault_dir \o <<NameAt(j)>>]
                        = [kind |-> "file", content |-> SourceContentAt(j)]
                   /\ \A p \in DOMAIN fs :
                        (p \notin {vault_dir \o <<NameAt(k)>> : k \in Dropped})
                            => fs[p] = fs_pre[p]
                   /\ StatedCopied(notices[1]) >= 2

C25_Witness ==
    /\ ProcessedDrop
    /\ vault_dir = <<"safe">>
    /\ urls = <<[scheme |-> "file", path |-> <<"home", "a.txt">>],
                [scheme |-> "file", path |-> <<"tmp", "a.txt">>]>>
    /\ CopiedAt = {1, 2}
    /\ fs[<<"safe", "a.txt">>] = [kind |-> "file", content |-> "A1"]
    /\ notices = <<[box |-> "information", kind |-> "success", copied |-> 2]>>

\* C26: a drop with an empty url list is ignored, with no message box and no
\* copy, whether or not a root directory is chosen: in particular no "choose
\* a vault folder first" notice is shown for it.
C26_EmptyDropIgnored ==
    (pc = "done" /\ urls = <<>>)
        => /\ event = "ignored"
           /\ notices = <<>>
           /\ outcomes = <<>>
           /\ copied_count = 0 /\ failed_files = <<>>
           /\ fs = fs_pre

\* An empty drop on a window with no root directory.
C26_Witness ==
    /\ pc = "done" /\ urls = <<>>
    /\ vault_dir = <<>>
    /\ event = "ignored"
    /\ notices = <<>>

\* C28: after a left-button press at pointer position p0, through any number
\* of move events, the last at p, and through the release, the window's
\* position is its position at the press plus (p - p0); and with no left press
\* that is still unreleased (none yet, or a release since) no event moves the
\* window.
C28_DragFollowsPointer ==
    /\ [](press_offset # <<>>
            => /\ drag_position # <<>>
               /\ window_pos = <<press_offset[1][1] + drag_position[1][1],
                                  press_offset[1][2] + drag_position[1][2]>>)
    /\ [][MouseReleaseEvent => window_pos' = window_pos]_vars
    /\ [][press_offset = <<>> => window_pos' = window_pos]_vars

\* A drag that moved the window diagonally and was released.
C28_Witness ==
    /\ press_offset = <<>>
    /\ drag_position = <<>>
    /\ window_pos = <<InitialWindowPos[1] + 1, InitialWindowPos[2] + 1>>

(***************************************************************************)
(* Claims about the vault's root directory (checked under SpecVault)       *)
(***************************************************************************)

\* C15: the root directory is unset when the window is constructed; when
\* choose_vault_dir returns with a chosen directory d, vault_dir = d, the
\* listing's root (the model's root path and the view's root index) is d and
\* the status bar names d; and in every reachable state in which vault_dir is
\* set, the listing's root is vault_dir.
C15_RootFollowsChoice ==
    /\ vault_dir = <<>>
    /\ [](vault_dir # <<>> => root_path = vault_dir)
    /\ [][\A d \in Dirs :
            ChooseVaultDir(d)
              => /\ vault_dir' = d
                 /\ root_path' = d
                 /\ status_msg' = [text |-> "current", dir |-> d]]_vars

\* A second choice replaced the first.
C15_Witness ==
    /\ vault_dir = <<"safe">>
    /\ root_path = <<"safe">>
    /\ status_msg = [text |-> "current", dir |-> <<"safe">>]
    /\ fs[<<"vault", "a.txt">>].kind = "file"

\* C27: a cancelled folder dialog (empty result) leaves vault_dir, the
\* listing's root and the status bar's message as they were; and once
\* vault_dir is set, no step of choose_vault_dir or dropEvent makes it unset
\* again.
C27_CancelKeepsRoot ==
    /\ [][ChooseVaultDir(<<>>) => UNCHANGED <<vault_dir, root_path, status_msg>>]_vars
    /\ [][vault_dir # <<>> => vault_dir' # <<>>]_vars

\* A root directory chosen second, with a file copied under the first: the
\* window was re-rooted and dropped on, and its root is still set.
C27_Witness ==
    /\ pc = "idle"
    /\ vault_dir = <<"vault">>
    /\ root_path = <<"vault">>
    /\ status_msg = [text |-> "current", dir |-> <<"vault">>]
    /\ fs[<<"safe", "b.txt">>].kind = "file"

\* C16: no copy error ends or wedges the handler.  A copy that raises is
\* recorded and the loop goes on to the next url; the handler reaches its end
\* with every url processed, one summary shown and the event accepted; the
\* root directory is not touched while a drop is handled; and the counts of a
\* drop are those of its own urls only, whatever failed in an earlier drop.
C16_CopyErrorContained ==
    /\ [](pc = "loop" => idx = Len(outcomes) + 1 /\ idx <= Len(urls) + 1)
    /\ []((pc = "done" /\ FailedAt # {})
            => /\ Len(outcomes) = Len(urls)
               /\ Len(notices) = 1
               /\ event = "accepted")
    /\ [](pc # "idle"
            => /\ copied_count = Cardinality(CopiedAt)
               /\ failed_files = FailuresUpTo(Len(outcomes)))
    /\ [][pc # "idle" => UNCHANGED <<vault_dir, root_path, status_msg>>]_vars

\* A drop after a failed one: a.txt is what the failed copy of an earlier drop
\* left of it, and the drop just handled copied b.txt without a failure.
C16_Witness ==
    /\ ProcessedDrop
    /\ vault_dir = <<"vault">>
    /\ fs[<<"vault", "a.txt">>].content = "<partial>"
    /\ Len(urls) = 1 /\ urls[1].path = <<"tmp", "b.txt">>
    /\ CopiedAt = {1}
    /\ event = "accepted"
    /\ notices = <<[box |-> "information", kind |-> "success", copied |-> 1]>>

(***************************************************************************)
(* SidebarItem.update_icon and the two SVG loaders                         *)
(***************************************************************************)

\* The icon files the widgets name: an item's regular and filled icon, and
\* the title bar's search icon.
IconPaths == {"regular.svg", "filled.svg", "search.svg"}

\* What can lie at an icon path: nothing, an SVG file, or a directory.
IconKinds == {"absent", "svg", "dir"}

\* os.path.exists
exists(files, path) == path \in DOMAIN files /\ files[path] # "absent"

\* Icons: Python's None, QIcon() (the empty icon), and an icon rendered from
\* an SVG file in a colour.
NoIcon == [kind |-> "None", path |-> "", color |-> ""]
EmptyIcon == [kind |-> "QIcon()", path |-> "", color |-> ""]
SvgIcon(path, color) == [kind |-> "svg", path |-> path, color |-> color]

\* What a label shows: nothing after clear(), else the pixmap it was given.
Cleared == [kind |-> "cleared", path |-> "", color |-> ""]
TransparentPixmap == [kind |-> "transparent", path |-> "", color |-> ""]
pixmap(icon) ==
    IF icon.kind = "svg"
    THEN [kind |-> "pixmap", path |-> icon.path, color |-> icon.color]
    ELSE [kind |-> "null pixmap", path |-> "", color |-> ""]

\* load_svg_icon_with_color(svg_path, color): the icon it returns, or the
\* exception open() raises on a path that exists but is no file.
load_svg_icon_with_color(files, svg_path, color) ==
    IF ~exists(files, svg_path)
    THEN [error |-> "", icon |-> EmptyIcon]
    ELSE IF files[svg_path] = "dir"
    THEN [error |-> "IsADirectoryError", icon |-> NoIcon]
    ELSE [error |-> "", icon |-> SvgIcon(svg_path, color)]

\* load_svg_icon_with_system_color(svg_path): the pixmap it returns.
load_svg_icon_with_system_color(files, svg_path) ==
    IF ~exists(files, svg_path)
    THEN [error |-> "", pixmap |-> TransparentPixmap]
    ELSE IF files[svg_path] = "dir"
    THEN [error |-> "IsADirectoryError", pixmap |-> TransparentPixmap]
    ELSE [error |-> "", pixmap |-> pixmap(SvgIcon(svg_path, "WindowText"))]

\* update_icon's branches as they would be with the hover test first.
IconChoice_HoverFirst(selected, hovered, regular, filled) ==
    IF hovered /\ Truthy(regular)
    THEN [path |-> regular, color |-> "HighlightedText"]
    ELSE IF selected /\ Truthy(filled)
    THEN [path |-> filled, color |-> "Highlight"]
    ELSE IF Truthy(regular)
    THEN [path |-> regular, color |-> "WindowText"]
    ELSE [path |-> None, color |-> ""]

\* The branch update_icon takes: which path it looks for and in which colour.
IconChoice(selected, hovered, regular, filled) ==
    IF selected /\ Truthy(filled)
    THEN [path |-> filled, color |-> "Highlight"]
    ELSE IF hovered /\ ~selected /\ Truthy(regular)
    THEN [path |-> regular, color |-> "HighlightedText"]
    ELSE IF Truthy(regular)
    THEN [path |-> regular, color |-> "WindowText"]
    ELSE [path |-> None, color |-> ""]

\* update_icon as it would be without the final elif that clears the label.
update_icon_NoClear(label, selected, hovered, regular, filled, files) ==
    LET choice == IconChoice(selected, hovered, regular, filled)
        loaded == IF choice.path # None /\ exists(files, choice.path)
                  THEN load_svg_icon_with_color(files, choice.path, choice.color)
                  ELSE [error |-> "", icon |-> NoIcon]
    IN  IF loaded.error # ""
        THEN [error |-> loaded.error, label |-> label]
        ELSE IF loaded.icon # NoIcon
        THEN [error |-> "", label |-> pixmap(loaded.icon)]
        ELSE [error |-> "", label |-> label]

\* SidebarItem.update_icon: the label afterwards, or the exception it lets
\* out (the label is then as it was).
update_icon(label, selected, hovered, regular, filled, files) ==
    LET choice == IconChoice(selected, hovered, regular, filled)
        loaded == IF choice.path # None /\ exists(files, choice.path)
                  THEN load_svg_icon_with_color(files, choice.path, choice.color)
                  ELSE [error |-> "", icon |-> NoIcon]
    IN  IF loaded.error # ""
        THEN [error |-> loaded.error, label |-> label]
        ELSE IF loaded.icon # NoIcon
        THEN [error |-> "", label |-> pixmap(loaded.icon)]
        ELSE [error |-> "", label |-> Cleared]

\* The icon paths an item is constructed with: init_ui gives both, add_item
\* gives icon_text ("" by default) as the regular path and no filled path.
ItemPaths ==
    {[regular |-> r, filled |-> f] :
        r \in {"", "regular.svg"}, f \in {None, "filled.svg"}}

\* The icon directory as the repository ships it, and an item of init_ui.
ShippedIcons == [p \in IconPaths |-> "svg"]
ShippedItemPaths == [regular |-> "regular.svg", filled |-> "filled.svg"]

\* SidebarItem.__init__ (it ends with update_icon()) and the title bar's
\* search icon, with the icon directory one of `directories` and the item's
\* paths one of `item_paths`: the states in which both constructors return.
IconInit(directories, item_paths) ==
    /\ icon_files \in directories
    /\ \E paths \in item_paths :
          /\ icon_regular_path = paths.regular
          /\ icon_filled_path = paths.filled
    /\ is_selected = FALSE
    /\ is_hovered = FALSE
    /\ LET r == update_icon(Cleared, FALSE, FALSE, icon_regular_path,
                            icon_filled_path, icon_files)
           s == load_svg_icon_with_system_color(icon_files, "search.svg")
       IN  /\ r.error = ""
           /\ s.error = ""
           /\ icon_label = r.label
           /\ search_icon_label = s.pixmap
    /\ icon_error = ""

\* SidebarItem.enterEvent
EnterEvent ==
    LET r == update_icon(icon_label, is_selected, TRUE, icon_regular_path,
                         icon_filled_path, icon_files)
    IN  /\ is_hovered' = TRUE
        /\ icon_label' = r.label
        /\ icon_error' = r.error
        /\ UNCHANGED <<icon_files, icon_regular_path, icon_filled_path, is_selected,
                       search_icon_label, sidebar_vars, vault_vars, titlebar_vars>>

\* SidebarItem.leaveEvent
LeaveEvent ==
    LET r == update_icon(icon_label, is_selected, FALSE, icon_regular_path,
                         icon_filled_path, icon_files)
    IN  /\ is_hovered' = FALSE
        /\ icon_label' = r.label
        /\ icon_error' = r.error
        /\ UNCHANGED <<icon_files, icon_regular_path, icon_filled_path, is_selected,
                       search_icon_label, sidebar_vars, vault_vars, titlebar_vars>>

\* SidebarItem.set_selected(selected), as the sidebar calls it.
SetSelected(selected) ==
    LET r == update_icon(icon_label, selected, is_hovered, icon_regular_path,
                         icon_filled_path, icon_files)
    IN  /\ is_selected' = selected
        /\ icon_label' = r.label
        /\ icon_error' = r.error
        /\ UNCHANGED <<icon_files, icon_regular_path, icon_filled_path, is_hovered,
                       search_icon_label, sidebar_vars, vault_vars, titlebar_vars>>

SidebarItemNext ==
    \/ EnterEvent
    \/ LeaveEvent
    \/ \E selected \in BOOLEAN : SetSelected(selected)

(***************************************************************************)
(* Claims about the icons (checked under SpecSidebarItem)                  *)
(***************************************************************************)

\* The icon file an item's state calls for: the filled one when the item is
\* selected and has one, else the regular one.
StatedIconPath ==
    IF is_selected /\ icon_filled_path \notin {None, ""}
    THEN icon_filled_path
    ELSE icon_regular_path

\* C17: when the icon file is absent the icon is blank and nothing is raised:
\* in every combination of selected and hovered the item's icon label is
\* cleared if the file its state calls for is absent, load_svg_icon_with_color
\* returns the empty icon for an absent file in any colour, and
\* load_svg_icon_with_system_color returns a transparent pixmap.
C17_MissingIconBlank ==
    /\ (StatedIconPath \in IconPaths /\ icon_files[StatedIconPath] = "absent")
         => icon_label = Cleared /\ icon_error = ""
    /\ \A p \in IconPaths, c \in {"Highlight", "HighlightedText", "WindowText"} :
         icon_files[p] = "absent"
           => load_svg_icon_with_color(icon_files, p, c) = [error |-> "", icon |-> EmptyIcon]
    /\ icon_files["search.svg"] = "absent" => search_icon_label = TransparentPixmap

\* A selected, hovered item whose filled icon is missing while its regular
\* icon is there: the label that showed the regular icon was cleared.
C17_Witness ==
    /\ is_selected /\ is_hovered
    /\ icon_filled_path = "filled.svg" /\ icon_files["filled.svg"] = "absent"
    /\ icon_regular_path = "regular.svg" /\ icon_files["regular.svg"] = "svg"
    /\ icon_files["search.svg"] = "absent"
    /\ icon_label = Cleared
    /\ icon_error = ""

StatedIconColor ==
    IF is_selected /\ icon_filled_path \notin {None, ""}
    THEN "Highlight"
    ELSE IF is_hovered /\ ~is_selected THEN "HighlightedText" ELSE "WindowText"

Init ==
    /\ SidebarInit /\ VaultInit /\ TitleBarInit
    /\ IconInit({ShippedIcons}, {ShippedItemPaths})

InitSidebarItem ==
    /\ SidebarInit /\ VaultInit /\ TitleBarInit
    /\ IconInit([IconPaths -> IconKinds], ItemPaths)

SpecSidebar == Init /\ [][SidebarNext]_vars

SpecVault == Init /\ [][VaultNext]_vars

SpecTitleBar == Init /\ [][TitleBarNext]_vars

SpecSidebarItem == InitSidebarItem /\ [][SidebarItemNext]_vars

====
